---- MODULE Spec2Model ----
(***************************************************************************)
(* Model of the ISPU index engine and of the prediction handler of         *)
(* src/app.py.                                                             *)
(*                                                                         *)
(* Numbers.  The program works on Python floats (IEEE 754 binary64).       *)
(*   - A reading is what a number_input widget holds; the model writes it  *)
(*     as the decimal the user typed or stepped to, in tenths of its unit  *)
(*     (Scale = 10).  The breakpoints of the table are written the same    *)
(*     way (15.5 is 155).                                                  *)
(*   - The float a decimal denotes is the binary64 value nearest to it     *)
(*     (FromTenths).  The engine's arithmetic is done on these floats with *)
(*     the operations of the format: every sum, difference, product and    *)
(*     quotient is the exact result rounded to 53 significant bits, ties   *)
(*     to even (FAdd, FSub, FMul, FDiv).  A float is the record            *)
(*     [neg, m, e] of value (-1)^neg * m * 2^e with 2^52 <= m < 2^53, or   *)
(*     m = 0; m is a natural number written in limbs of 15 bits, least     *)
(*     significant first, since a product of two limbs has to fit the      *)
(*     32-bit integers of TLC.  Subnormal numbers, infinities and NaN do   *)
(*     not occur for readings between -10^7 and 10^7.                      *)
(*   - round(x, 2) gives the float nearest to a number of hundredths; an   *)
(*     index (sub-index, ISPU) is held as that number of hundredths        *)
(*     (Cent = 100).  Comparing such a float with 50, 100, 200, 300 is     *)
(*     comparing the hundredths with 5000, 10000, ...                      *)
(***************************************************************************)
EXTENDS Integers, Sequences, FiniteSets, TLC

Scale == 10
Cent == 100

\* ---- bounds of the model ----
\* how many tenths either side of a breakpoint the dense grids go
Over == 8
\* how many widget steps c2 may lie above c1 in the monotonicity pairs
MaxDelta == 2
\* largest index value (whole index points) the classifiers are tried on
MaxIndex == 501
\* number of calculate_ispu_manual calls running at the same time
NumCalls == 2

VARIABLES
    pc,                 \* position of the prediction handler / of the driver
    inputs,             \* the dict built at app.py:682 (readings, tenths)
    validate_calls,     \* validate_inputs calls in this script run
    validation_errors,  \* list returned by validate_inputs
    engine_calls,       \* calculate_ispu_manual calls in this script run
    ispu_pred,          \* overall index (hundredths)
    sub_indices,        \* the six sub-indices (hundredths), 0-indexed
    dominant_pollutant, \* display name of the dominant pollutant
    air_quality_class,  \* classify_based_on_ispu(ispu_pred)
    category,           \* classify_air_quality(ispu_pred)[0]
    pollutant,          \* argument of calculate_sub_index
    C,                  \* argument of calculate_sub_index (tenths)
    sub_index,          \* result of calculate_sub_index (hundredths)
    inputs_lo,          \* the first of two compared submissions
    ispu_lo,            \* overall index (or results kept) of inputs_lo
    recommendation,     \* the health recommendation block shown (app.py:772-809)
    models,             \* rf_model, sarimax_model, scaler, models_loaded
    calls,              \* the calculate_ispu_manual calls in progress
    progress            \* progress_bar and status_text (app.py:695-700)

vars == <<pc, inputs, validate_calls, validation_errors, engine_calls,
          ispu_pred, sub_indices, dominant_pollutant, air_quality_class,
          category, pollutant, C, sub_index, inputs_lo, ispu_lo,
          recommendation, models, calls, progress>>

None == "none"

ZeroIdx(s) == [i \in 0..(Len(s) - 1) |-> s[i + 1]]

\* ------------------------------------------------------------------------
\* Natural numbers of any size, as sequences of limbs of LimbBits bits,
\* least significant limb first and the last limb not 0; <<>> is 0.
\* ------------------------------------------------------------------------
LimbBits == 15
Base == 32768
Pow2 == ZeroIdx(<<1, 2, 4, 8, 16, 32, 64, 128, 256, 512, 1024, 2048, 4096,
                  8192, 16384, 32768>>)

RECURSIVE BTrim(_)
BTrim(a) ==
    IF a = <<>> THEN a
    ELSE IF a[Len(a)] = 0 THEN BTrim(SubSeq(a, 1, Len(a) - 1)) ELSE a

Limb(a, i) == IF i <= Len(a) THEN a[i] ELSE 0

RECURSIVE BFromInt(_)
BFromInt(n) == IF n = 0 THEN <<>> ELSE <<n % Base>> \o BFromInt(n \div Base)

RECURSIVE BToInt(_)
BToInt(a) == IF a = <<>> THEN 0 ELSE a[1] + Base * BToInt(Tail(a))

RECURSIVE BAddFrom(_, _, _, _)
BAddFrom(a, b, i, carry) ==
    IF i > Len(a) /\ i > Len(b)
    THEN (IF carry = 0 THEN <<>> ELSE <<carry>>)
    ELSE LET s == Limb(a, i) + Limb(b, i) + carry
         IN  <<s % Base>> \o BAddFrom(a, b, i + 1, s \div Base)

BAdd(a, b) == BAddFrom(a, b, 1, 0)

RECURSIVE BSubFrom(_, _, _, _)
BSubFrom(a, b, i, borrow) ==
    IF i > Len(a) THEN <<>>
    ELSE LET d == a[i] - Limb(b, i) - borrow
         IN  IF d < 0 THEN <<d + Base>> \o BSubFrom(a, b, i + 1, 1)
             ELSE <<d>> \o BSubFrom(a, b, i + 1, 0)

\* a - b for a >= b
BSub(a, b) == BTrim(BSubFrom(a, b, 1, 0))

RECURSIVE BCmpFrom(_, _, _)
BCmpFrom(a, b, i) ==
    IF i = 0 THEN 0
    ELSE IF a[i] < b[i] THEN -1
    ELSE IF a[i] > b[i] THEN 1
    ELSE BCmpFrom(a, b, i - 1)

\* -1, 0, 1 as a < b, a = b, a > b
BCmp(a, b) ==
    IF Len(a) < Len(b) THEN -1
    ELSE IF Len(a) > Len(b) THEN 1
    ELSE BCmpFrom(a, b, Len(a))

RECURSIVE BMulSmallFrom(_, _, _, _)
BMulSmallFrom(a, k, i, carry) ==
    IF i > Len(a) THEN (IF carry = 0 THEN <<>> ELSE <<carry>>)
    ELSE LET s == a[i] * k + carry
         IN  <<s % Base>> \o BMulSmallFrom(a, k, i + 1, s \div Base)

\* a * k for 0 <= k <= Base
BMulSmall(a, k) == BTrim(BMulSmallFrom(a, k, 1, 0))

RECURSIVE ZeroLimbs(_)
ZeroLimbs(n) == IF n = 0 THEN <<>> ELSE <<0>> \o ZeroLimbs(n - 1)

RECURSIVE BMulFrom(_, _, _)
BMulFrom(a, b, j) ==
    IF j > Len(b) THEN <<>>
    ELSE BAdd(IF b[j] = 0 THEN <<>> ELSE ZeroLimbs(j - 1) \o BMulSmall(a, b[j]),
              BMulFrom(a, b, j + 1))

BMul(a, b) == IF a = <<>> \/ b = <<>> THEN <<>> ELSE BTrim(BMulFrom(a, b, 1))

\* a * 2^t
BShl(a, t) ==
    IF a = <<>> THEN a
    ELSE ZeroLimbs(t \div LimbBits) \o BMulSmall(a, Pow2[t % LimbBits])

RECURSIVE BShrBitsFrom(_, _, _)
BShrBitsFrom(a, r, i) ==
    IF i > Len(a) THEN <<>>
    ELSE <<(a[i] \div Pow2[r]) + (Limb(a, i + 1) % Pow2[r]) * Pow2[LimbBits - r]>>
             \o BShrBitsFrom(a, r, i + 1)

\* floor(a / 2^t)
BShr(a, t) ==
    LET d == t \div LimbBits
    IN  IF d >= Len(a) THEN <<>>
        ELSE BTrim(BShrBitsFrom(SubSeq(a, d + 1, Len(a)), t % LimbBits, 1))

\* the low t bits of a are all 0
BLowZero(a, t) ==
    /\ \A i \in 1..(t \div LimbBits) : Limb(a, i) = 0
    /\ Limb(a, t \div LimbBits + 1) % Pow2[t % LimbBits] = 0

RECURSIVE SmallBitLen(_)
SmallBitLen(n) == IF n = 0 THEN 0 ELSE 1 + SmallBitLen(n \div 2)

\* number of bits of a
BBitLen(a) ==
    IF a = <<>> THEN 0 ELSE LimbBits * (Len(a) - 1) + SmallBitLen(a[Len(a)])

BOdd(a) == Limb(a, 1) % 2 = 1

\* bit t of a (bit 0 the lowest) is 1
BBit(a, t) == (Limb(a, t \div LimbBits + 1) \div Pow2[t % LimbBits]) % 2 = 1

RECURSIVE BDivSmallFrom(_, _, _, _)
BDivSmallFrom(a, k, i, rem) ==
    IF i = 0 THEN [q |-> <<>>, r |-> rem]
    ELSE LET n    == rem * Base + a[i]
             rest == BDivSmallFrom(a, k, i - 1, n % k)
         IN  [q |-> rest.q \o <<n \div k>>, r |-> rest.r]

\* floor(a / k) and a % k for 0 < k < Base
BDivSmall(a, k) ==
    LET d == BDivSmallFrom(a, k, Len(a), 0) IN [q |-> BTrim(d.q), r |-> d.r]

\* ------------------------------------------------------------------------
\* binary64 floats and their arithmetic, round to nearest, ties to even
\* ------------------------------------------------------------------------
\* significant bits of a binary64
Precision == 53

\* limbs of quotient a division works out before it rounds
QuotLimbs == 5

FZero == [neg |-> FALSE, m |-> <<>>, e |-> 0]

\* M / 2^s (s >= 1) rounded to the nearest natural number, a tie going to
\* the even one; above says the number being rounded lies strictly above
\* M / 2^s, by less than 1 / 2^s
\* q, or q + 1 when the part cut off is more than a half (half and more)
\* or is a half and q is odd
RoundUp(q, half, more) ==
    IF half /\ (more \/ BOdd(q)) THEN BAdd(q, <<1>>) ELSE q

RoundShift(M, s, above) ==
    RoundUp(BShr(M, s), BBit(M, s - 1), ~BLowZero(M, s - 1) \/ above)

\* the float (-1)^neg * q * 2^E of a q of Precision bits, or of 2^Precision
\* (what rounding up the largest q of Precision bits gives)
Pack(neg, q, E) ==
    IF BBitLen(q) > Precision
    THEN [neg |-> neg, m |-> BShr(q, 1), e |-> E + 1]
    ELSE [neg |-> neg, m |-> q, e |-> E]

\* the float nearest to (-1)^neg * M * 2^E (or to a number strictly
\* above M * 2^E by less than 2^E, when above; M then has more than
\* Precision bits)
RoundNearestEven(neg, M, E, above) ==
    LET L == BBitLen(M)
    IN  IF M = <<>> THEN FZero
        ELSE IF L <= Precision
        THEN [neg |-> neg, m |-> BShl(M, Precision - L), e |-> E - (Precision - L)]
        ELSE Pack(neg, RoundShift(M, L - Precision, above), E + (L - Precision))

\* float(n) of a Python int
FromInt(n) == RoundNearestEven(n < 0, BFromInt(IF n < 0 THEN -n ELSE n), 0, FALSE)

\* the float a decimal of k tenths denotes: the one nearest to k / 10
FromTenths(k) ==
    LET d == BDivSmall(BShl(BFromInt(IF k < 0 THEN -k ELSE k), 4 * LimbBits), Scale)
    IN  RoundNearestEven(k < 0, d.q, -(4 * LimbBits), d.r # 0)

FNeg(a) == IF a.m = <<>> THEN a ELSE [a EXCEPT !.neg = ~a.neg]

\* a * b
FMul(a, b) == RoundNearestEven(a.neg # b.neg, BMul(a.m, b.m), a.e + b.e, FALSE)

\* a + b
\* (-1)^an * Ma * 2^e + (-1)^bn * Mb * 2^e
FAddAligned(an, Ma, bn, Mb, e) ==
    IF an = bn THEN RoundNearestEven(an, BAdd(Ma, Mb), e, FALSE)
    ELSE IF BCmp(Ma, Mb) >= 0
         THEN RoundNearestEven(an, BSub(Ma, Mb), e, FALSE)
         ELSE RoundNearestEven(bn, BSub(Mb, Ma), e, FALSE)

FAdd(a, b) ==
    IF a.m = <<>> THEN b
    ELSE IF b.m = <<>> THEN a
    ELSE LET e == IF a.e < b.e THEN a.e ELSE b.e
         IN  FAddAligned(a.neg, BShl(a.m, a.e - e), b.neg, BShl(b.m, b.e - e), e)

\* a - b
FSub(a, b) == FAdd(a, FNeg(b))

\* the remainder (< D) and the quotient once q * D has been taken off R
RECURSIVE DivFix(_, _, _)
DivFix(R, D, q) ==
    IF BCmp(R, D) >= 0 THEN DivFix(BSub(R, D), D, q + 1) ELSE [r |-> R, q |-> q]

\* floor(R / D) and R % D for R < D * Base and D of Precision bits; the
\* quotient is first estimated, from below, from the leading bits
DivLimb(R, D) ==
    LET lead == Precision - LimbBits
        est  == BToInt(BShr(R, lead)) \div (BToInt(BShr(D, lead)) + 1)
    IN  DivFix(BSub(R, BMulSmall(D, est)), D, est)

RECURSIVE DivLimbs(_, _, _)

\* the quotient limb top.q put above those the remainder top.r gives
DivJoin(top, low) == [q |-> low.q \o <<top.q>>, rest |-> low.rest]

DivLower(top, D, k) ==
    DivJoin(top, DivLimbs(IF top.r = <<>> THEN <<>> ELSE <<0>> \o top.r, D, k - 1))

\* floor(R * Base^(k-1) / D) in k limbs, and whether a remainder is left
DivLimbs(R, D, k) ==
    IF k = 0 THEN [q |-> <<>>, rest |-> R # <<>>]
    ELSE DivLower(DivLimb(R, D), D, k)

\* the float nearest to the quotient d.q (and what d.rest says is left) * 2^E
FDivRound(neg, d, E) == RoundNearestEven(neg, BTrim(d.q), E, d.rest)

\* a / b, b not 0
FDiv(a, b) ==
    IF a.m = <<>> THEN a
    ELSE FDivRound(a.neg # b.neg, DivLimbs(a.m, b.m, QuotLimbs),
                   a.e - b.e - LimbBits * (QuotLimbs - 1))

\* a <= b
FLe(a, b) ==
    IF a.m = <<>> THEN b.m = <<>> \/ ~b.neg
    ELSE IF b.m = <<>> THEN a.neg
    ELSE IF a.neg # b.neg THEN a.neg
    ELSE LET c == IF a.e # b.e THEN (IF a.e < b.e THEN -1 ELSE 1)
                  ELSE BCmp(a.m, b.m)
         IN  IF a.neg THEN c >= 0 ELSE c <= 0

\* a == 0
FIsZero(a) == a.m = <<>>

\* ------------------------------------------------------------------------
\* The breakpoint table (app.py:266-273), the literals in tenths, indexed
\* 0..5 as in the source.
\* ------------------------------------------------------------------------
\* the table with a breakpoint of PM10 repeated
thresholds_Repeated ==
    [pm10  |-> ZeroIdx(<<0, 50 * Scale, 150 * Scale, 150 * Scale, 420 * Scale, 500 * Scale>>),
     pm2_5 |-> ZeroIdx(<<0, 155, 554, 1504, 2504, 3504>>),
     so2   |-> ZeroIdx(<<0, 52 * Scale, 180 * Scale, 400 * Scale, 800 * Scale, 1200 * Scale>>),
     no2   |-> ZeroIdx(<<0, 80 * Scale, 200 * Scale, 1130 * Scale, 2260 * Scale, 3000 * Scale>>),
     o3    |-> ZeroIdx(<<0, 120 * Scale, 235 * Scale, 400 * Scale, 800 * Scale, 1000 * Scale>>),
     co    |-> ZeroIdx(<<0, 4000 * Scale, 8000 * Scale, 15000 * Scale, 30000 * Scale, 45000 * Scale>>)]

thresholds ==
    [pm10  |-> ZeroIdx(<<0, 50 * Scale, 150 * Scale, 350 * Scale, 420 * Scale, 500 * Scale>>),
     pm2_5 |-> ZeroIdx(<<0, 155, 554, 1504, 2504, 3504>>),
     so2   |-> ZeroIdx(<<0, 52 * Scale, 180 * Scale, 400 * Scale, 800 * Scale, 1200 * Scale>>),
     no2   |-> ZeroIdx(<<0, 80 * Scale, 200 * Scale, 1130 * Scale, 2260 * Scale, 3000 * Scale>>),
     o3    |-> ZeroIdx(<<0, 120 * Scale, 235 * Scale, 400 * Scale, 800 * Scale, 1000 * Scale>>),
     co    |-> ZeroIdx(<<0, 4000 * Scale, 8000 * Scale, 15000 * Scale, 30000 * Scale, 45000 * Scale>>)]

\* the keys of thresholds, in the order sub_indices is built (app.py:301-308)
Keys == <<"pm10", "pm2_5", "so2", "no2", "o3", "co">>
KeySet == {Keys[k] : k \in 1..6}

\* app.py:315
pollutants == ZeroIdx(<<"PM10", "PM2.5", "SO2", "NO2", "O3", "CO">>)

\* ------------------------------------------------------------------------
\* round(x, 2) of a float x, in hundredths: the whole number of hundredths
\* nearest to the exact value of x, a tie (which only a float that holds
\* it exactly can be) going to the even one.  |x| < 2^31 / 100.
\* ------------------------------------------------------------------------
\* Round2 that cuts the digits off instead of rounding
Round2_Truncate(x) ==
    IF x.m = <<>> THEN 0
    ELSE LET q == BToInt(BShr(BMulSmall(x.m, Cent), -x.e))
         IN  IF x.neg THEN -q ELSE q

Round2(x) ==
    IF x.m = <<>> THEN 0
    ELSE LET q == BToInt(RoundShift(BMulSmall(x.m, Cent), -x.e, FALSE))
         IN  IF x.neg THEN -q ELSE q

\* Interpolate measuring the concentration from the band's upper edge
Interpolate_Inverted(thresh, i, c) ==
    LET I_low  == i * 50
        I_high == (i + 1) * 50
        C_low  == FromTenths(thresh[i])
        C_high == FromTenths(thresh[i + 1])
    IN  IF FIsZero(FSub(C_high, C_low))
        THEN I_low * Cent
        ELSE Round2(FAdd(FMul(FDiv(FromInt(I_high - I_low), FSub(C_high, C_low)),
                              FSub(C_high, c)),
                         FromInt(I_low)))

\* Interpolate whose band tops out one band too high
Interpolate_WideHigh(thresh, i, c) ==
    LET I_low  == i * 50
        I_high == (i + 2) * 50
        C_low  == FromTenths(thresh[i])
        C_high == FromTenths(thresh[i + 1])
    IN  IF FIsZero(FSub(C_high, C_low))
        THEN I_low * Cent
        ELSE Round2(FAdd(FMul(FDiv(FromInt(I_high - I_low), FSub(C_high, C_low)),
                              FSub(c, C_low)),
                         FromInt(I_low)))

\* Interpolate counting the bands from 1
Interpolate_OneBased(thresh, i, c) ==
    LET I_low  == (i + 1) * 50
        I_high == (i + 2) * 50
        C_low  == FromTenths(thresh[i])
        C_high == FromTenths(thresh[i + 1])
    IN  IF FIsZero(FSub(C_high, C_low))
        THEN I_low * Cent
        ELSE Round2(FAdd(FMul(FDiv(FromInt(I_high - I_low), FSub(C_high, C_low)),
                              FSub(c, C_low)),
                         FromInt(I_low)))

\* app.py:286-295, the body of the band scan for band i; c is a float, the
\* result is in hundredths
Interpolate(thresh, i, c) ==
    LET I_low  == i * 50
        I_high == (i + 1) * 50
        C_low  == FromTenths(thresh[i])
        C_high == FromTenths(thresh[i + 1])
    IN  IF FIsZero(FSub(C_high, C_low))
        THEN I_low * Cent
        ELSE Round2(FAdd(FMul(FDiv(FromInt(I_high - I_low), FSub(C_high, C_low)),
                              FSub(c, C_low)),
                         FromInt(I_low)))

\* ScanBands comparing with < : a band no longer holds its upper edge
RECURSIVE ScanBands_Strict(_, _, _)
ScanBands_Strict(thresh, i, c) ==
    IF i >= 5 THEN 500 * Cent
    ELSE IF ~FLe(FromTenths(thresh[i + 1]), c) THEN Interpolate(thresh, i, c)
    ELSE ScanBands_Strict(thresh, i + 1, c)

\* app.py:283-298, the loop "for i in range(5)" from band i on
RECURSIVE ScanBands(_, _, _)
ScanBands(thresh, i, c) ==
    IF i >= 5 THEN 500 * Cent
    ELSE IF FLe(c, FromTenths(thresh[i + 1])) THEN Interpolate(thresh, i, c)
    ELSE ScanBands(thresh, i + 1, c)

\* app.py:278-298; c is a float
calculate_sub_index(c, p) == ScanBands(thresholds[p], 0, c)

\* Max6 taking the smallest element
Max6_Min(s) == CHOOSE m \in {s[k] : k \in 0..5} : \A k \in 0..5 : s[k] >= m

\* max(sub_indices), app.py:311
Max6(s) == CHOOSE m \in {s[k] : k \in 0..5} : \A k \in 0..5 : s[k] <= m

\* IndexOf returning the last position holding v
IndexOf_Last(s, v) == CHOOSE k \in 0..5 : s[k] = v /\ \A j \in (k + 1)..5 : s[j] # v

\* sub_indices.index(ispu), app.py:314: the first position holding ispu
IndexOf(s, v) == CHOOSE k \in 0..5 : s[k] = v /\ \A j \in 0..(k - 1) : s[j] # v

\* app.py:311-318: the index, the dominant pollutant and the dictionary
\* returned, from the list of the six sub-indices
Aggregate(subs) ==
    LET ispu == Max6(subs)
        dominant_idx == IndexOf(subs, ispu)
    IN  [ispu |-> ispu, sub_indices |-> subs,
         dominant_pollutant |-> pollutants[dominant_idx]]

\* calculate_ispu_manual without the unit conversion of CO
calculate_ispu_manual_NoConv(pm10, pm2_5, so2, no2, o3, co) ==
    Aggregate(ZeroIdx(<<calculate_sub_index(pm10, "pm10"),
                        calculate_sub_index(pm2_5, "pm2_5"),
                        calculate_sub_index(so2, "so2"),
                        calculate_sub_index(no2, "no2"),
                        calculate_sub_index(o3, "o3"),
                        calculate_sub_index(co, "co")>>))

\* app.py:258-318.  The six arguments are floats; co is in mg/m3 and co_ug
\* in ug/m3 (app.py:276).
calculate_ispu_manual(pm10, pm2_5, so2, no2, o3, co) ==
    LET co_ug == FMul(co, FromInt(1000))
    IN  Aggregate(ZeroIdx(<<calculate_sub_index(pm10, "pm10"),
                            calculate_sub_index(pm2_5, "pm2_5"),
                            calculate_sub_index(so2, "so2"),
                            calculate_sub_index(no2, "no2"),
                            calculate_sub_index(o3, "o3"),
                            calculate_sub_index(co_ug, "co")>>))

\* classify_based_on_ispu with exclusive upper bounds
classify_based_on_ispu_Strict(ispu) ==
    IF ispu < 50 * Cent THEN [label |-> "Baik", circle |-> "green"]
    ELSE IF ispu < 100 * Cent THEN [label |-> "Sedang", circle |-> "yellow"]
    ELSE IF ispu < 200 * Cent THEN [label |-> "Tidak Sehat", circle |-> "orange"]
    ELSE IF ispu < 300 * Cent THEN [label |-> "Sangat Tidak Sehat", circle |-> "red"]
    ELSE [label |-> "Berbahaya", circle |-> "purple"]

\* app.py:320-331: the label and the coloured circle that follows it
classify_based_on_ispu(ispu) ==
    IF ispu <= 50 * Cent THEN [label |-> "Baik", circle |-> "green"]
    ELSE IF ispu <= 100 * Cent THEN [label |-> "Sedang", circle |-> "yellow"]
    ELSE IF ispu <= 200 * Cent THEN [label |-> "Tidak Sehat", circle |-> "orange"]
    ELSE IF ispu <= 300 * Cent THEN [label |-> "Sangat Tidak Sehat", circle |-> "red"]
    ELSE [label |-> "Berbahaya", circle |-> "purple"]

\* app.py:195-206: the triple (label, colour, emoji)
classify_air_quality(ispu_value) ==
    IF ispu_value <= 50 * Cent THEN <<"Baik", "#10B981", "smile">>
    ELSE IF ispu_value <= 100 * Cent THEN <<"Sedang", "#F59E0B", "neutral">>
    ELSE IF ispu_value <= 200 * Cent THEN <<"Tidak Sehat", "#EF4444", "mask">>
    ELSE IF ispu_value <= 300 * Cent THEN <<"Sangat Tidak Sehat", "#7C3AED", "nauseated">>
    ELSE <<"Berbahaya", "#DC2626", "skull">>

\* health_recommendation with exclusive upper bounds
health_recommendation_Strict(ispu) ==
    IF ispu < 50 * Cent THEN [call |-> "success", heading |-> "BAIK"]
    ELSE IF ispu < 100 * Cent THEN [call |-> "warning", heading |-> "SEDANG"]
    ELSE IF ispu < 200 * Cent THEN [call |-> "error", heading |-> "TIDAK SEHAT"]
    ELSE IF ispu < 300 * Cent THEN [call |-> "error", heading |-> "SANGAT TIDAK SEHAT"]
    ELSE [call |-> "error", heading |-> "BERBAHAYA"]

\* app.py:772-809: the st.* call made and the heading of the block it shows
health_recommendation(ispu) ==
    IF ispu <= 50 * Cent THEN [call |-> "success", heading |-> "BAIK"]
    ELSE IF ispu <= 100 * Cent THEN [call |-> "warning", heading |-> "SEDANG"]
    ELSE IF ispu <= 200 * Cent THEN [call |-> "error", heading |-> "TIDAK SEHAT"]
    ELSE IF ispu <= 300 * Cent THEN [call |-> "error", heading |-> "SANGAT TIDAK SEHAT"]
    ELSE [call |-> "error", heading |-> "BERBAHAYA"]

\* ------------------------------------------------------------------------
\* Model loading, app.py:21-45 and app.py:184-190.  An artifact is "ok"
\* (joblib.load returns the object), "missing" (FileNotFoundError) or
\* "error" (joblib.load raises anything else).
\* ------------------------------------------------------------------------
LoadOutcomes == {"ok", "missing", "error"}

\* one try/except block of load_models, app.py:24-29: the value bound
load_one(outcome) == IF outcome = "ok" THEN "object" ELSE None

\* app.py:21-45: only FileNotFoundError is caught, any other error leaves
\* the function
load_models(art) ==
    IF \E n \in 1..3 : art[n] = "error"
    THEN [raised |-> TRUE]
    ELSE [raised |-> FALSE,
          value |-> <<load_one(art[1]), load_one(art[2]), load_one(art[3])>>]

\* app.py:184-190
module_load(art) ==
    LET r == load_models(art)
    IN  IF r.raised
        THEN [rf_model |-> None, sarimax_model |-> None, scaler |-> None,
              models_loaded |-> FALSE]
        ELSE [rf_model |-> r.value[1], sarimax_model |-> r.value[2],
              scaler |-> r.value[3],
              models_loaded |-> \A n \in 1..3 : r.value[n] # None]

\* ------------------------------------------------------------------------
\* validate_inputs, app.py:208-226
\* ------------------------------------------------------------------------
\* the keys of the dict of app.py:682-685, in insertion order
InputKeys == <<"pm10", "pm2_5", "so2", "no", "no2", "o3", "co", "nh3">>

\* name.upper()
Upper == [pm10 |-> "PM10", pm2_5 |-> "PM2_5", so2 |-> "SO2", no |-> "NO",
          no2 |-> "NO2", o3 |-> "O3", co |-> "CO", nh3 |-> "NH3"]

\* app.py:216-219, one pass of the loop body: the messages one item appends
FieldErrors(name, value) ==
    IF value < 0 THEN <<[field |-> Upper[name], msg |-> "tidak boleh negatif"]>>
    ELSE IF value > 10000 * Scale
         THEN <<[field |-> Upper[name], msg |-> "terlalu tinggi (maksimal 10000)"]>>
         ELSE <<>>

\* app.py:215-219, the loop over the first n items
RECURSIVE LoopErrors(_, _)
LoopErrors(inp, n) ==
    IF n = 0 THEN <<>>
    ELSE LoopErrors(inp, n - 1) \o FieldErrors(InputKeys[n], inp[InputKeys[n]])

\* validate_inputs without the CO check of app.py:221-224
validate_inputs_NoCoCap(inp) == LoopErrors(inp, Len(InputKeys))

\* app.py:208-226
validate_inputs(inp) ==
    LET co_value == inp["co"]
    IN  LoopErrors(inp, Len(InputKeys)) \o
        (IF co_value > 100 * Scale
         THEN <<[field |-> "CO", msg |-> "Nilai CO terlalu tinggi (maksimal 100 mg/m3)"]>>
         ELSE <<>>)

\* ------------------------------------------------------------------------
\* The prediction handler, app.py:680-822, one action per step.
\* ------------------------------------------------------------------------
\* Values the number_input widgets (app.py:599-675) can hold, in tenths:
\* min_value 0.0, max_value 10000.0 (1000.0 for CO); a value is typed or
\* reached with the +/- buttons.
PM10Values == {0, 50 * Scale, 1501}
PM25Values == {0, 155, 35 * Scale}
SO2Values  == {0, 20 * Scale, 52 * Scale}
NOValues   == {0, 10 * Scale}
NO2Values  == {0, 40 * Scale}
O3Values   == {0, 50 * Scale}
COValues   == {0, 4 * Scale, 161, 451, 150 * Scale}
NH3Values  == {10 * Scale}

WidgetValues ==
    [pm10 : PM10Values, pm2_5 : PM25Values, so2 : SO2Values, no : NOValues,
     no2 : NO2Values, o3 : O3Values, co : COValues, nh3 : NH3Values]

\* EngineOn passing the NO reading where NO2 belongs
EngineOn_NoForNo2(inp) ==
    calculate_ispu_manual(FromTenths(inp.pm10), FromTenths(inp.pm2_5),
                          FromTenths(inp.so2), FromTenths(inp.no),
                          FromTenths(inp.o3), FromTenths(inp.co))

\* the call of app.py:705-707 on the readings of a dict, each reading being
\* the float its widget returned
EngineOn(inp) ==
    calculate_ispu_manual(FromTenths(inp.pm10), FromTenths(inp.pm2_5),
                          FromTenths(inp.so2), FromTenths(inp.no2),
                          FromTenths(inp.o3), FromTenths(inp.co))

\* app.py:335-341: the text and the percentage of each step of the
\* animation
steps ==
    <<[text |-> "Memvalidasi input...", progress |-> 10],
      [text |-> "Menghitung ISPU...", progress |-> 30],
      [text |-> "Melakukan klasifikasi...", progress |-> 60],
      [text |-> "Menyiapkan visualisasi...", progress |-> 85],
      [text |-> "Menyusun hasil...", progress |-> 100]>>

\* number of time.sleep calls of animate_progress_bar (app.py:350, 354)
Sleeps == Len(steps) + 1

Fresh ==
    /\ inputs = None
    /\ validate_calls = 0
    /\ validation_errors = None
    /\ engine_calls = 0
    /\ ispu_pred = None
    /\ sub_indices = None
    /\ dominant_pollutant = None
    /\ air_quality_class = None
    /\ category = None
    /\ recommendation = None
    /\ progress = None

\* the page is served with the three artifacts in place; no engine call is
\* in progress outside the handler
Served ==
    /\ models = module_load(<<"ok", "ok", "ok">>)
    /\ calls = None

Unused ==
    /\ pollutant = None
    /\ C = None
    /\ sub_index = None
    /\ inputs_lo = None
    /\ ispu_lo = None

Init ==
    /\ pc = "idle"
    /\ Fresh
    /\ Served
    /\ Unused

\* app.py:680-687: the button is pressed, the dict is built and validated
PressButton ==
    /\ pc = "idle"
    /\ \E inp \in WidgetValues :
          /\ inputs' = inp
          /\ validation_errors' = validate_inputs(inp)
    /\ validate_calls' = validate_calls + 1
    /\ pc' = "validated"
    /\ UNCHANGED <<engine_calls, ispu_pred, sub_indices, dominant_pollutant,
                   air_quality_class, category, pollutant, C, sub_index,
                   inputs_lo, ispu_lo,
                   recommendation, models, calls, progress>>

\* ShowErrors that also stops the run when a model is not loaded
ShowErrors_ModelsMissing ==
    /\ pc = "validated"
    /\ (validation_errors # <<>> \/ ~models.models_loaded)
    /\ pc' = "stopped"
    /\ UNCHANGED <<inputs, validate_calls, validation_errors, engine_calls,
                   ispu_pred, sub_indices, dominant_pollutant,
                   air_quality_class, category, pollutant, C, sub_index,
                   inputs_lo, ispu_lo,
                   recommendation, models, calls, progress>>

\* app.py:689-692: the messages are shown and st.stop() ends the run
ShowErrors ==
    /\ pc = "validated"
    /\ validation_errors # <<>>
    /\ pc' = "stopped"
    /\ UNCHANGED <<inputs, validate_calls, validation_errors, engine_calls,
                   ispu_pred, sub_indices, dominant_pollutant,
                   air_quality_class, category, pollutant, C, sub_index,
                   inputs_lo, ispu_lo,
                   recommendation, models, calls, progress>>

\* StartProgress with the st.stop() of app.py:692 left out
StartProgress_NoStop ==
    /\ pc = "validated"
    /\ progress' = [bar |-> 0, text |-> "", slept |-> 0]
    /\ pc' = "animating"
    /\ UNCHANGED <<inputs, validate_calls, validation_errors, engine_calls,
                   ispu_pred, sub_indices, dominant_pollutant,
                   air_quality_class, category, pollutant, C, sub_index,
                   inputs_lo, ispu_lo,
                   recommendation, models, calls>>

\* app.py:689-700: no message, so the run goes on: the progress bar and the
\* status text are created and animate_progress_bar is entered
StartProgress ==
    /\ pc = "validated"
    /\ validation_errors = <<>>
    /\ progress' = [bar |-> 0, text |-> "", slept |-> 0]
    /\ pc' = "animating"
    /\ UNCHANGED <<inputs, validate_calls, validation_errors, engine_calls,
                   ispu_pred, sub_indices, dominant_pollutant,
                   air_quality_class, category, pollutant, C, sub_index,
                   inputs_lo, ispu_lo,
                   recommendation, models, calls>>

\* app.py:344-350, one pass of the loop: the bar and the text are set and
\* the script sleeps 0.5 s
AnimateStep ==
    /\ pc = "animating"
    /\ progress.slept < Len(steps)
    /\ progress' = [bar   |-> steps[progress.slept + 1].progress,
                    text  |-> steps[progress.slept + 1].text,
                    slept |-> progress.slept + 1]
    /\ UNCHANGED <<pc, inputs, validate_calls, validation_errors,
                   engine_calls, ispu_pred, sub_indices, dominant_pollutant,
                   air_quality_class, category, pollutant, C, sub_index,
                   inputs_lo, ispu_lo,
                   recommendation, models, calls>>

\* app.py:352-354: the bar is filled, the text says the prediction is done
\* and the script sleeps 0.3 s
AnimateDone ==
    /\ pc = "animating"
    /\ progress.slept = Len(steps)
    /\ progress' = [bar |-> 100, text |-> "Prediksi selesai!",
                    slept |-> progress.slept + 1]
    /\ UNCHANGED <<pc, inputs, validate_calls, validation_errors,
                   engine_calls, ispu_pred, sub_indices, dominant_pollutant,
                   air_quality_class, category, pollutant, C, sub_index,
                   inputs_lo, ispu_lo,
                   recommendation, models, calls>>

\* app.py:702-707: the animation has returned and the engine is called
RunEngine ==
    /\ pc = "animating"
    /\ progress.slept = Sleeps
    /\ LET r == EngineOn(inputs)
       IN  /\ ispu_pred' = r.ispu
           /\ sub_indices' = r.sub_indices
           /\ dominant_pollutant' = r.dominant_pollutant
    /\ engine_calls' = engine_calls + 1
    /\ pc' = "computed"
    /\ UNCHANGED <<inputs, validate_calls, validation_errors,
                   air_quality_class, category, pollutant, C, sub_index,
                   inputs_lo, ispu_lo,
                   recommendation, models, calls, progress>>

\* app.py:710 and app.py:723: the two classifications of the result
ClassifyResult ==
    /\ pc = "computed"
    /\ air_quality_class' = classify_based_on_ispu(ispu_pred)
    /\ category' = classify_air_quality(ispu_pred)
    /\ pc' = "classified"
    /\ UNCHANGED <<inputs, validate_calls, validation_errors, engine_calls,
                   ispu_pred, sub_indices, dominant_pollutant, pollutant, C,
                   sub_index, inputs_lo, ispu_lo,
                   recommendation, models, calls, progress>>

\* app.py:749-818: the detail table divides each sub-index by ispu_pred
\* (app.py:757, the quotient is only formatted for display), the
\* recommendation block is chosen (app.py:772-809) and the rest of the page
\* is rendered
RenderDetail ==
    /\ pc = "classified"
    /\ ispu_pred # 0
    /\ recommendation' = health_recommendation(ispu_pred)
    /\ pc' = "rendered"
    /\ UNCHANGED <<inputs, validate_calls, validation_errors, engine_calls,
                   ispu_pred, sub_indices, dominant_pollutant,
                   air_quality_class, category, pollutant, C, sub_index,
                   inputs_lo, ispu_lo,
                   models, calls, progress>>

\* app.py:757 with ispu_pred = 0: the division raises ZeroDivisionError and
\* the except branch of app.py:820-822 reports it
RenderRaises ==
    /\ pc = "classified"
    /\ ispu_pred = 0
    /\ pc' = "exception"
    /\ UNCHANGED <<inputs, validate_calls, validation_errors, engine_calls,
                   ispu_pred, sub_indices, dominant_pollutant,
                   air_quality_class, category, pollutant, C, sub_index,
                   inputs_lo, ispu_lo,
                   recommendation, models, calls, progress>>

\* what a script run leaves behind when it is over
EndRun ==
    /\ pc' = "idle"
    /\ inputs' = None
    /\ validate_calls' = 0
    /\ validation_errors' = None
    /\ engine_calls' = 0
    /\ ispu_pred' = None
    /\ sub_indices' = None
    /\ dominant_pollutant' = None
    /\ air_quality_class' = None
    /\ category' = None
    /\ recommendation' = None
    /\ progress' = None

\* the user interacts with the page while the run is between two st.*
\* calls: Streamlit ends the run at its next st.* call (the handler's
\* "except Exception" of app.py:820 does not catch that) and starts a new
\* one.  The sleeps of animate_progress_bar are where the run waits.
Interrupt ==
    /\ pc \in {"validated", "animating", "computed", "classified"}
    /\ EndRun
    /\ UNCHANGED <<pollutant, C, sub_index, inputs_lo, ispu_lo,
                   models, calls>>

\* the script run is over; the next interaction starts a new run
Rerun ==
    /\ pc \in {"stopped", "rendered", "exception"}
    /\ EndRun
    /\ UNCHANGED <<pollutant, C, sub_index, inputs_lo, ispu_lo,
                   models, calls>>

Next ==
    \/ PressButton
    \/ ShowErrors
    \/ StartProgress
    \/ AnimateStep
    \/ AnimateDone
    \/ RunEngine
    \/ ClassifyResult
    \/ RenderDetail
    \/ RenderRaises
    \/ Interrupt
    \/ Rerun

Spec == Init /\ [][Next]_vars

\* ------------------------------------------------------------------------
\* calculate_sub_index as a pure function: one call on every concentration
\* within Over tenths of a breakpoint, on the widgets' initial values and
\* on the largest concentration validation lets through.
\* ------------------------------------------------------------------------
\* step= of the number_input of a reading (tenths), app.py:599-675
ReadingStep(p) == IF p \in {"co", "nh3"} THEN 1 ELSE Scale

\* value= of the number_input of a reading (tenths), app.py:599-675
ReadingDefault ==
    [pm10 |-> 50 * Scale, pm2_5 |-> 35 * Scale, so2 |-> 20 * Scale,
     no |-> 10 * Scale, no2 |-> 40 * Scale, o3 |-> 50 * Scale,
     co |-> 4 * Scale, nh3 |-> 10 * Scale]

\* the concentration calculate_sub_index gets for a reading of r tenths
\* (app.py:276, app.py:302-307), a float
ToConc(p, r) ==
    IF p = "co" THEN FMul(FromTenths(r), FromInt(1000)) ELSE FromTenths(r)

\* the reading (tenths) that lands on breakpoint i
BreakReading(p, i) == IF p = "co" THEN thresholds[p][i] \div 1000 ELSE thresholds[p][i]

\* the largest reading validate_inputs accepts (app.py:218, app.py:223)
ReadingMax(p) == IF p = "co" THEN 100 * Scale ELSE 10000 * Scale

\* the readings within Over tenths of a breakpoint, the widget's initial
\* value and the largest validated reading
ReadingGrid(p) ==
    {r \in {BreakReading(p, i) + d : i \in 0..5, d \in (-Over)..Over} : r >= 0}
        \cup {ReadingDefault[p], ReadingMax(p)}

KeyReadings(p) ==
    {BreakReading(p, i) : i \in 0..5}
        \cup {BreakReading(p, i) + 1 : i \in 0..5}
        \cup {ReadingMax(p)}

\* the concentrations (tenths) calculate_sub_index is called on
ConcGrid(p) ==
    {c \in {thresholds[p][i] + d : i \in 0..5, d \in (-Over)..Over} : c >= 0}
        \cup {r * (IF p = "co" THEN 1000 ELSE 1) : r \in ReadingGrid(p)}

InitSub ==
    /\ pc = "sub_call"
    /\ Fresh
    /\ Served
    /\ pollutant \in KeySet
    /\ C \in ConcGrid(pollutant)
    /\ sub_index = None
    /\ inputs_lo = None
    /\ ispu_lo = None

CallSubIndex ==
    /\ pc = "sub_call"
    /\ sub_index' = calculate_sub_index(FromTenths(C), pollutant)
    /\ pc' = "sub_done"
    /\ UNCHANGED <<inputs, validate_calls, validation_errors, engine_calls,
                   ispu_pred, sub_indices, dominant_pollutant,
                   air_quality_class, category, pollutant, C, inputs_lo,
                   ispu_lo,
                   recommendation, models, calls, progress>>

NextSub == CallSubIndex

SpecSub == InitSub /\ [][NextSub]_vars

\* ------------------------------------------------------------------------
\* calculate_ispu_manual on two inputs that differ in one pollutant, the
\* other five held at 0.
\* ------------------------------------------------------------------------
Zeros == [k \in {InputKeys[n] : n \in 1..Len(InputKeys)} |-> 0]

InitMono ==
    /\ pc = "mono_call"
    /\ Served
    /\ recommendation = None
    /\ progress = None
    /\ validate_calls = 0
    /\ validation_errors = None
    /\ engine_calls = 0
    /\ ispu_pred = None
    /\ sub_indices = None
    /\ dominant_pollutant = None
    /\ air_quality_class = None
    /\ category = None
    /\ C = None
    /\ sub_index = None
    /\ ispu_lo = None
    /\ pollutant \in KeySet
    /\ \E c1 \in ReadingGrid(pollutant) :
          \E c2 \in {c1 + d * ReadingStep(pollutant) : d \in 0..MaxDelta}
                        \cup {r \in KeyReadings(pollutant) : r >= c1} :
             /\ c2 <= ReadingMax(pollutant)
             /\ inputs_lo = [Zeros EXCEPT ![pollutant] = c1]
             /\ inputs = [Zeros EXCEPT ![pollutant] = c2]

CallBoth ==
    /\ pc = "mono_call"
    /\ ispu_lo' = EngineOn(inputs_lo).ispu
    /\ LET r == EngineOn(inputs)
       IN  /\ ispu_pred' = r.ispu
           /\ sub_indices' = r.sub_indices
           /\ dominant_pollutant' = r.dominant_pollutant
    /\ engine_calls' = engine_calls + 2
    /\ pc' = "mono_done"
    /\ UNCHANGED <<inputs, validate_calls, validation_errors,
                   air_quality_class, category, pollutant, C, sub_index,
                   inputs_lo,
                   recommendation, models, calls, progress>>

NextMono == CallBoth

SpecMono == InitMono /\ [][NextMono]_vars

\* ------------------------------------------------------------------------
\* The two classifiers as pure functions of an index value, every hundredth
\* from 0 to MaxIndex index points.
\* ------------------------------------------------------------------------
InitClassify ==
    /\ pc = "cls_call"
    /\ Served
    /\ recommendation = None
    /\ progress = None
    /\ inputs = None
    /\ validate_calls = 0
    /\ validation_errors = None
    /\ engine_calls = 0
    /\ ispu_pred \in 0..(MaxIndex * Cent)
    /\ sub_indices = None
    /\ dominant_pollutant = None
    /\ air_quality_class = None
    /\ category = None
    /\ Unused

ClassifyIndex ==
    /\ pc = "cls_call"
    /\ air_quality_class' = classify_based_on_ispu(ispu_pred)
    /\ category' = classify_air_quality(ispu_pred)
    /\ pc' = "cls_done"
    /\ UNCHANGED <<inputs, validate_calls, validation_errors, engine_calls,
                   ispu_pred, sub_indices, dominant_pollutant, pollutant, C,
                   sub_index, inputs_lo, ispu_lo,
                   recommendation, models, calls, progress>>

\* app.py:772-809 on the same index value
RecommendIndex ==
    /\ pc = "cls_done"
    /\ recommendation' = health_recommendation(ispu_pred)
    /\ pc' = "cls_rec"
    /\ UNCHANGED <<inputs, validate_calls, validation_errors, engine_calls,
                   ispu_pred, sub_indices, dominant_pollutant,
                   air_quality_class, category, pollutant, C, sub_index,
                   inputs_lo, ispu_lo, models, calls, progress>>

NextClassify == ClassifyIndex \/ RecommendIndex

SpecClassify == InitClassify /\ [][NextClassify]_vars

\* ------------------------------------------------------------------------
\* Properties
\* ------------------------------------------------------------------------
\* the engine has returned in this run
HasResult == pc \in {"computed", "classified", "rendered", "exception"}

\* both classifications of the result have been made in this run
HasCategory == pc \in {"classified", "rendered", "exception"}

\* position of a display name in the fixed order of app.py:315
PosOf(name) == CHOOSE k \in 0..5 : pollutants[k] = name

\* the smallest band whose upper breakpoint is not below c (c <= thresh[5])
FirstBand(p, c) ==
    CHOOSE i \in 0..4 : /\ c <= thresholds[p][i + 1]
                        /\ \A j \in 0..(i - 1) : c > thresholds[p][j + 1]

Abs(x) == IF x < 0 THEN -x ELSE x

\* C1 as stated: every concentration at or above the top breakpoint,
\* thresh[5] itself included, has sub-index exactly 500.
C1_Original ==
    (pc = "sub_done" /\ C >= thresholds[pollutant][5]) => sub_index = 500 * Cent

\* C1 as amended: every concentration strictly above the top breakpoint has
\* sub-index exactly 500; a concentration equal to the top breakpoint is the
\* upper edge of band 4 and has sub-index 250.
C1_Saturation ==
    pc = "sub_done" =>
        /\ C > thresholds[pollutant][5] => sub_index = 500 * Cent
        /\ C = thresholds[pollutant][5] => sub_index = 250 * Cent

C1_Witness ==
    /\ pc = "sub_done"
    /\ pollutant = "co"
    /\ C = thresholds[pollutant][5]
    /\ sub_index = 250 * Cent

\* C2: for 0 <= C <= thresh[5] the sub-index is that of the smallest band i
\* with C <= thresh[i+1]: it lies in [i*50, (i+1)*50] and is
\* i*50 + 50*(C - thresh[i])/(thresh[i+1] - thresh[i]) to within half a
\* hundredth, i.e. that value rounded to 2 decimals.
C2_Interpolation ==
    (pc = "sub_done" /\ C >= 0 /\ C <= thresholds[pollutant][5]) =>
        LET i     == FirstBand(pollutant, C)
            C_low == thresholds[pollutant][i]
            width == thresholds[pollutant][i + 1] - C_low
            off   == sub_index - i * 50 * Cent
        IN  /\ i * 50 * Cent <= sub_index
            /\ sub_index <= (i + 1) * 50 * Cent
            /\ 2 * Abs(off * width - 50 * Cent * (C - C_low)) <= width

C2_Witness ==
    /\ pc = "sub_done"
    /\ pollutant = "pm2_5"
    /\ C = 35 * Scale
    /\ sub_index = 7444

\* C3: with the other five readings at 0, a reading c1 <= c2 of one
\* pollutant gives an overall index for c1 that is <= the one for c2, over
\* the whole validated domain.
C3_Monotone ==
    pc = "mono_done" =>
        (inputs_lo[pollutant] <= inputs[pollutant] => ispu_lo <= ispu_pred)

C3_Witness ==
    /\ pc = "mono_done"
    /\ pollutant = "so2"
    /\ inputs_lo[pollutant] = BreakReading(pollutant, 5)
    /\ inputs[pollutant] = ReadingMax(pollutant)
    /\ ispu_lo = 250 * Cent
    /\ ispu_pred = 500 * Cent

\* C4: at an interior breakpoint thresh[i], i = 1..4, band i's formula and
\* band i-1's formula give the same sub-index, i*50, and that is what the
\* call returns.
C4_Continuity ==
    pc = "sub_done" =>
        \A i \in 1..4 :
            C = thresholds[pollutant][i] =>
                /\ Interpolate(thresholds[pollutant], i, FromTenths(C)) = i * 50 * Cent
                /\ Interpolate(thresholds[pollutant], i - 1, FromTenths(C)) = i * 50 * Cent
                /\ sub_index = i * 50 * Cent

C4_Witness ==
    /\ pc = "sub_done"
    /\ pollutant = "no2"
    /\ C = thresholds[pollutant][3]
    /\ sub_index = 150 * Cent

\* C5: the overall index is the maximum of the six sub-indices, and the
\* sub-index of the reported dominant pollutant equals it.
C5_Aggregation ==
    HasResult =>
        /\ \A k \in 0..5 : sub_indices[k] <= ispu_pred
        /\ \E k \in 0..5 : sub_indices[k] = ispu_pred
        /\ sub_indices[PosOf(dominant_pollutant)] = ispu_pred

C5_Witness ==
    /\ pc = "computed"
    /\ dominant_pollutant = "O3"
    /\ ispu_pred = 2083
    /\ sub_indices[0] < ispu_pred

\* C6: no pollutant earlier in the order [PM10, PM2.5, SO2, NO2, O3, CO]
\* than the reported dominant one has a sub-index equal to the overall
\* index: on a tie the earliest pollutant is reported.
C6_TieBreak ==
    HasResult =>
        \A j \in 0..5 :
            j < PosOf(dominant_pollutant) => sub_indices[j] # ispu_pred

C6_Witness ==
    /\ pc = "computed"
    /\ dominant_pollutant = "PM2.5"
    /\ sub_indices[1] = ispu_pred
    /\ sub_indices[2] = ispu_pred
    /\ sub_indices[5] = ispu_pred

\* C7: the category depends on the index alone, with inclusive upper
\* bounds: <= 50 Baik, <= 100 Sedang, <= 200 Tidak Sehat, <= 300 Sangat
\* Tidak Sehat, above 300 Berbahaya; 50 is Baik, 50.01 Sedang, 300 Sangat
\* Tidak Sehat, 300.01 Berbahaya; both classifiers agree.
C7_CategoryMapping ==
    pc = "cls_done" =>
        LET lab == category[1]
            x   == ispu_pred
        IN  /\ air_quality_class.label = lab
            /\ x <= 50 * Cent => lab = "Baik"
            /\ (50 * Cent < x /\ x <= 100 * Cent) => lab = "Sedang"
            /\ (100 * Cent < x /\ x <= 200 * Cent) => lab = "Tidak Sehat"
            /\ (200 * Cent < x /\ x <= 300 * Cent) => lab = "Sangat Tidak Sehat"
            /\ x > 300 * Cent => lab = "Berbahaya"
            /\ x = 50 * Cent + 1 => lab = "Sedang"
            /\ x = 300 * Cent + 1 => lab = "Berbahaya"

C7_Witness ==
    /\ pc = "cls_done"
    /\ ispu_pred = 300 * Cent
    /\ category[1] = "Sangat Tidak Sehat"
    /\ air_quality_class.label = "Sangat Tidak Sehat"

\* C8: six zero readings give overall index 0, six sub-indices 0 and the
\* category Baik.
C8_AllZero ==
    (HasResult /\ \A k \in 1..6 : inputs[Keys[k]] = 0) =>
        /\ ispu_pred = 0
        /\ \A k \in 0..5 : sub_indices[k] = 0
        /\ HasCategory => (category[1] = "Baik" /\ air_quality_class.label = "Baik")

C8_Witness ==
    /\ pc = "classified"
    /\ \A k \in 1..6 : inputs[Keys[k]] = 0
    /\ ispu_pred = 0
    /\ category[1] = "Baik"

\* the readings of the regression scenario: pm10=50, pm2_5=35, so2=20,
\* no2=40, o3=50, co=4.0
Scenario ==
    /\ inputs.pm10 = 50 * Scale
    /\ inputs.pm2_5 = 35 * Scale
    /\ inputs.so2 = 20 * Scale
    /\ inputs.no2 = 40 * Scale
    /\ inputs.o3 = 50 * Scale
    /\ inputs.co = 4 * Scale

\* C9 as stated: in the scenario the CO sub-index is 50, the PM2.5
\* sub-index lies in band 0 (between 0 and 50), the overall index is the
\* maximum sub-index and the category is the one of that maximum.
C9_Original ==
    (HasResult /\ Scenario) =>
        /\ sub_indices[5] = 50 * Cent
        /\ 0 <= sub_indices[1] /\ sub_indices[1] <= 50 * Cent
        /\ \A k \in 0..5 : sub_indices[k] <= ispu_pred
        /\ \E k \in 0..5 : sub_indices[k] = ispu_pred

\* C9 as amended: in the scenario the CO sub-index is 50, the PM2.5
\* sub-index lies in band 1 (between 50 and 100; it is 74.44), the overall
\* index is the maximum sub-index, 74.44 with PM2.5 dominant, and the
\* category is the one of that maximum, Sedang.
C9_Scenario ==
    (HasResult /\ Scenario) =>
        /\ sub_indices[5] = 50 * Cent
        /\ 50 * Cent <= sub_indices[1] /\ sub_indices[1] <= 100 * Cent
        /\ sub_indices[1] = 7444
        /\ \A k \in 0..5 : sub_indices[k] <= ispu_pred
        /\ ispu_pred = sub_indices[1]
        /\ dominant_pollutant = "PM2.5"
        /\ HasCategory => (category[1] = "Sedang" /\ air_quality_class.label = "Sedang")

C9_Witness ==
    /\ pc = "rendered"
    /\ Scenario
    /\ ispu_pred = 7444
    /\ category[1] = "Sedang"

\* C10: the engine is never called in a run whose validation returned a
\* message, validation has always been called before the engine is, and a
\* CO reading of 150 mg/m3 gives a CO message and no engine call.
C10_ValidationGates ==
    /\ engine_calls > 0 => (validate_calls > 0 /\ validation_errors = <<>>)
    /\ (validate_calls > 0 /\ validation_errors # <<>>) => engine_calls = 0
    /\ (validate_calls > 0 /\ inputs.co = 150 * Scale) =>
          /\ \E n \in 1..Len(validation_errors) : validation_errors[n].field = "CO"
          /\ engine_calls = 0
          /\ ~HasResult

C10_Witness ==
    /\ pc = "stopped"
    /\ inputs.co = 150 * Scale
    /\ Len(validation_errors) = 1
    /\ engine_calls = 0

\* ------------------------------------------------------------------------
\* validate_inputs as a pure function: one call on every dict whose values
\* lie below, on and above the limits of app.py:216-223.
\* ------------------------------------------------------------------------
ProbeValues == {-Scale, 0, 10000 * Scale, 10001 * Scale}
COProbeValues == {-1, 0, 100 * Scale, 100 * Scale + 1, 10000 * Scale, 10000 * Scale + 1}

ProbeDicts ==
    [pm10 : ProbeValues, pm2_5 : ProbeValues, so2 : ProbeValues,
     no : ProbeValues, no2 : ProbeValues, o3 : ProbeValues,
     co : COProbeValues, nh3 : ProbeValues]

InitValidate ==
    /\ pc = "val_call"
    /\ inputs \in ProbeDicts
    /\ validate_calls = 0
    /\ validation_errors = None
    /\ engine_calls = 0
    /\ ispu_pred = None
    /\ sub_indices = None
    /\ dominant_pollutant = None
    /\ air_quality_class = None
    /\ category = None
    /\ recommendation = None
    /\ progress = None
    /\ Served
    /\ Unused

CallValidate ==
    /\ pc = "val_call"
    /\ validation_errors' = validate_inputs(inputs)
    /\ validate_calls' = validate_calls + 1
    /\ pc' = "val_done"
    /\ UNCHANGED <<inputs, engine_calls, ispu_pred, sub_indices,
                   dominant_pollutant, air_quality_class, category,
                   pollutant, C, sub_index, inputs_lo, ispu_lo,
                   recommendation, models, calls, progress>>

NextValidate == CallValidate

SpecValidate == InitValidate /\ [][NextValidate]_vars

\* validate_inputs called on its own and from the prediction handler
InitGate == Init \/ InitValidate

NextGate == Next \/ NextValidate

SpecGate == InitGate /\ [][NextGate]_vars

\* ------------------------------------------------------------------------
\* Properties of validation
\* ------------------------------------------------------------------------
InputKeySet == {InputKeys[n] : n \in 1..Len(InputKeys)}

\* the field violates a rule of section 4.3
Offending(inp, f) ==
    \/ inp[f] < 0
    \/ inp[f] > 10000 * Scale
    \/ (f = "co" /\ inp[f] > 100 * Scale)

\* number of messages of the list that are about field f
MessagesFor(errs, f) ==
    Cardinality({n \in 1..Len(errs) : errs[n].field = Upper[f]})

\* C11: the list returned by validate_inputs holds exactly one message for
\* each field that violates a rule and none for the others, so its length
\* is the number of offending fields, also when CO is above both 10,000 and
\* 100.
C11_OnePerField ==
    pc = "val_done" =>
        /\ \A f \in InputKeySet :
              MessagesFor(validation_errors, f)
                  = (IF Offending(inputs, f) THEN 1 ELSE 0)
        /\ Len(validation_errors)
              = Cardinality({f \in InputKeySet : Offending(inputs, f)})

\* every reading is within the limits validation enforces
InRange(inp) ==
    /\ \A f \in InputKeySet : inp[f] >= 0 /\ inp[f] <= 10000 * Scale
    /\ inp["co"] <= 100 * Scale

\* C12: validate_inputs returns the empty list exactly when every reading
\* is >= 0 and <= 10,000 and CO is <= 100; so every concentration the
\* engine is called with is >= 0 and <= 10,000 (<= 100 for CO).
C12_AcceptanceSet ==
    /\ validate_calls > 0 => (validation_errors = <<>> <=> InRange(inputs))
    /\ engine_calls > 0 =>
          /\ \A k \in 1..6 : inputs[Keys[k]] >= 0 /\ inputs[Keys[k]] <= 10000 * Scale
          /\ inputs.co <= 100 * Scale

C12_Witness ==
    /\ pc = "val_done"
    /\ \A f \in InputKeySet \ {"co"} : inputs[f] = 10000 * Scale
    /\ inputs.co = 100 * Scale
    /\ validation_errors = <<>>

\* severity tier 1..5 of a category label
TierOfLabel(l) ==
    CASE l = "Baik" -> 1
      [] l = "Sedang" -> 2
      [] l = "Tidak Sehat" -> 3
      [] l = "Sangat Tidak Sehat" -> 4
      [] l = "Berbahaya" -> 5

\* severity tier 1..5 of a recommendation heading
TierOfHeading(h) ==
    CASE h = "BAIK" -> 1
      [] h = "SEDANG" -> 2
      [] h = "TIDAK SEHAT" -> 3
      [] h = "SANGAT TIDAK SEHAT" -> 4
      [] h = "BERBAHAYA" -> 5

\* C13: a submission ends in exactly one of two ways: messages are shown
\* and no result is produced, or (for every submission that passes
\* validation, six zero readings included) the complete result is rendered
\* and the handler's except branch is never entered.
C13_NoPartialResults ==
    /\ pc # "exception"
    /\ pc = "stopped" =>
          (validation_errors # <<>> /\ engine_calls = 0 /\ ispu_pred = None
              /\ category = None)
    /\ pc = "rendered" =>
          /\ validation_errors = <<>>
          /\ engine_calls = 1
          /\ ispu_pred >= 0
          /\ \A k \in 0..5 : sub_indices[k] >= 0
          /\ \E k \in 0..5 : pollutants[k] = dominant_pollutant
          /\ TierOfLabel(category[1]) \in 1..5
          /\ TierOfLabel(air_quality_class.label) \in 1..5
          /\ TierOfHeading(recommendation.heading) \in 1..5

\* ------------------------------------------------------------------------
\* The prediction handler after every outcome of loading the three model
\* artifacts (app.py:184-190).
\* ------------------------------------------------------------------------
InitModels ==
    /\ pc = "idle"
    /\ Fresh
    /\ Unused
    /\ calls = None
    /\ \E a1 \in LoadOutcomes, a2 \in LoadOutcomes, a3 \in LoadOutcomes :
          models = module_load(<<a1, a2, a3>>)

SpecModels == InitModels /\ [][Next]_vars

\* C14: whatever the outcome of loading the three artifacts, a run stops
\* only on a validation message, a validated submission is on its way to
\* the engine or has its result from it, and the index, sub-indices,
\* dominant pollutant and category are those computed from the readings
\* alone, the same as when all models loaded.
C14_ModelsNeverBlock ==
    /\ pc = "stopped" => validation_errors # <<>>
    /\ (validate_calls > 0 /\ validation_errors = <<>>) =>
          (pc \in {"validated", "animating"} \/ HasResult)
    /\ HasResult =>
          LET r == EngineOn(inputs)
          IN  /\ ispu_pred = r.ispu
              /\ sub_indices = r.sub_indices
              /\ dominant_pollutant = r.dominant_pollutant
              /\ HasCategory =>
                    /\ category = classify_air_quality(r.ispu)
                    /\ air_quality_class = classify_based_on_ispu(r.ispu)

C14_Witness ==
    /\ pc = "rendered"
    /\ ~models.models_loaded
    /\ models.rf_model = None
    /\ models.scaler # None
    /\ ispu_pred = 7444

\* ------------------------------------------------------------------------
\* Two submissions that agree on the six index pollutants and differ in NO
\* and/or NH3.  Each is a script run of its own, started by the button;
\* between them the change of the NO or NH3 widget reruns the script with
\* the button not pressed, which binds nothing of the handler.  ispu_lo is
\* the list of the results kept from the first submission: empty, or the
\* one result the page showed when the user went on to change NO or NH3.
\* ------------------------------------------------------------------------
\* app.py:705-723: what the handler has derived from the dict in this run
HandlerResult ==
    [ispu |-> ispu_pred, sub_indices |-> sub_indices,
     dominant_pollutant |-> dominant_pollutant,
     air_quality_class |-> air_quality_class,
     category |-> category]

\* values the NO and NH3 widgets are set to for the second submission
AdvisoryValues == {0, 10 * Scale, 10000 * Scale}

InitAdvisory ==
    /\ pc = "idle"
    /\ Fresh
    /\ Served
    /\ pollutant = None
    /\ C = None
    /\ sub_index = None
    /\ inputs_lo = None
    /\ ispu_lo = <<>>

\* app.py:680-687 for the first submission
SubmitFirst ==
    /\ pc = "idle"
    /\ \E inp \in WidgetValues :
          /\ inputs' = inp
          /\ inputs_lo' = inp
          /\ validation_errors' = validate_inputs(inp)
    /\ validate_calls' = validate_calls + 1
    /\ ispu_lo' = <<>>
    /\ pc' = "validated"
    /\ UNCHANGED <<engine_calls, ispu_pred, sub_indices, dominant_pollutant,
                   air_quality_class, category, pollutant, C, sub_index,
                   recommendation, models, calls, progress>>

\* the first run is over with its result on the page and the user changes
\* the NO or the NH3 widget (app.py:626-633, 668-675): Streamlit reruns the
\* script, st.button of app.py:680 returns False and the run ends with
\* nothing of the handler bound
ChangeAdvisory ==
    /\ pc \in {"rendered", "exception"}
    /\ inputs = inputs_lo
    /\ ispu_lo' = <<HandlerResult>>
    /\ EndRun
    /\ UNCHANGED <<pollutant, C, sub_index, inputs_lo, models, calls>>

\* app.py:680-687 for the second submission: the button is pressed in a
\* later run, with the widgets as the first submission had them but for NO
\* and/or NH3
SubmitSecond ==
    /\ pc = "idle"
    /\ Len(ispu_lo) = 1
    /\ \E n \in AdvisoryValues, h \in AdvisoryValues :
          LET inp == [inputs_lo EXCEPT !.no = n, !.nh3 = h]
          IN  /\ inp # inputs_lo
              /\ inputs' = inp
              /\ validation_errors' = validate_inputs(inp)
    /\ validate_calls' = validate_calls + 1
    /\ pc' = "validated"
    /\ UNCHANGED <<engine_calls, ispu_pred, sub_indices, dominant_pollutant,
                   air_quality_class, category, pollutant, C, sub_index,
                   inputs_lo, ispu_lo, recommendation, models, calls,
                   progress>>

NextAdvisory ==
    \/ SubmitFirst
    \/ ChangeAdvisory
    \/ SubmitSecond
    \/ ShowErrors
    \/ StartProgress
    \/ AnimateStep
    \/ AnimateDone
    \/ RunEngine
    \/ ClassifyResult
    \/ RenderDetail
    \/ RenderRaises
    \/ Interrupt
    \/ Rerun

SpecAdvisory == InitAdvisory /\ [][NextAdvisory]_vars

\* the run in progress is the second submission of a pair
SecondRun ==
    /\ inputs # inputs_lo
    /\ \A k \in 1..6 : inputs[Keys[k]] = inputs_lo[Keys[k]]

\* C15: two validated submissions that agree on PM10, PM2.5, SO2, NO2, O3
\* and CO and differ in NO and/or NH3 get the same overall index, the same
\* six sub-indices, the same dominant pollutant and the same category.
C15_AdvisoryIgnored ==
    (HasResult /\ SecondRun) =>
        /\ Len(ispu_lo) = 1
        /\ ispu_lo[1].ispu = ispu_pred
        /\ ispu_lo[1].sub_indices = sub_indices
        /\ ispu_lo[1].dominant_pollutant = dominant_pollutant
        /\ HasCategory =>
              /\ ispu_lo[1].air_quality_class = air_quality_class
              /\ ispu_lo[1].category = category

C15_Witness ==
    /\ pc = "classified"
    /\ inputs.no # inputs_lo.no
    /\ inputs.nh3 # inputs_lo.nh3
    /\ inputs.no2 = 40 * Scale
    /\ ispu_pred = 7444
    /\ ispu_lo[1].ispu = 7444

\* ------------------------------------------------------------------------
\* NumCalls calls of calculate_ispu_manual (one per session thread) running
\* interleaved, one action per statement of app.py:276-316.  Every name the
\* function writes is a local of the call: thresholds (app.py:266), co_ug
\* (app.py:276), sub_indices, ispu, dominant_idx.
\* ------------------------------------------------------------------------
CallIds == 1..NumCalls

\* argument lists (readings in tenths) the concurrent calls are made with
CallArgs ==
    {[pm10 |-> 50 * Scale, pm2_5 |-> 35 * Scale, so2 |-> 20 * Scale,
      no2 |-> 40 * Scale, o3 |-> 50 * Scale, co |-> 4 * Scale],
     [pm10 |-> 0, pm2_5 |-> 0, so2 |-> 0, no2 |-> 0, o3 |-> 0, co |-> 0],
     [pm10 |-> 1501, pm2_5 |-> 0, so2 |-> 52 * Scale, no2 |-> 0,
      o3 |-> 120 * Scale, co |-> 451]}

\* the frame of a call that has just built its table (app.py:266-273)
NewFrame(args) ==
    [args |-> args, thresholds |-> thresholds, at |-> "convert",
     co_ug |-> None, sub_indices |-> <<>>, ispu |-> None,
     dominant_pollutant |-> None]

InitConc ==
    /\ pc = "conc"
    /\ Fresh
    /\ Unused
    /\ models = module_load(<<"ok", "ok", "ok">>)
    /\ calls \in [CallIds -> {NewFrame(a) : a \in CallArgs}]

ConcUnchanged ==
    UNCHANGED <<pc, inputs, validate_calls, validation_errors, engine_calls,
                ispu_pred, sub_indices, dominant_pollutant, air_quality_class,
                category, pollutant, C, sub_index, inputs_lo, ispu_lo,
                recommendation, models, progress>>

\* ConvertCO writing co_ug as a module-level global that every call reads
ConvertCO_Global(id) ==
    /\ calls[id].at = "convert"
    /\ calls' = [j \in CallIds |->
                    IF j = id
                    THEN [calls[j] EXCEPT
                             !.co_ug = FMul(FromTenths(calls[id].args.co), FromInt(1000)),
                             !.at = "sub"]
                    ELSE [calls[j] EXCEPT
                             !.co_ug = FMul(FromTenths(calls[id].args.co), FromInt(1000))]]
    /\ ConcUnchanged

\* app.py:276
ConvertCO(id) ==
    /\ calls[id].at = "convert"
    /\ calls' = [calls EXCEPT
                    ![id].co_ug = FMul(FromTenths(calls[id].args.co), FromInt(1000)),
                    ![id].at = "sub"]
    /\ ConcUnchanged

\* app.py:301-308: the next element of the list sub_indices, from
\* calculate_sub_index reading the call's table (app.py:280)
SubIndexStep(id) ==
    /\ calls[id].at = "sub"
    /\ LET f    == calls[id]
           key  == Keys[Len(f.sub_indices) + 1]
           conc == IF key = "co" THEN f.co_ug ELSE FromTenths(f.args[key])
           subs == Append(f.sub_indices, ScanBands(f.thresholds[key], 0, conc))
       IN  calls' = [calls EXCEPT ![id].sub_indices = subs,
                                  ![id].at = IF Len(subs) = 6 THEN "max" ELSE "sub"]
    /\ ConcUnchanged

\* app.py:311
TakeMax(id) ==
    /\ calls[id].at = "max"
    /\ calls' = [calls EXCEPT ![id].ispu = Max6(ZeroIdx(calls[id].sub_indices)),
                              ![id].at = "dominant"]
    /\ ConcUnchanged

\* app.py:314-318
FindDominant(id) ==
    /\ calls[id].at = "dominant"
    /\ LET f == calls[id]
           dominant_idx == IndexOf(ZeroIdx(f.sub_indices), f.ispu)
       IN  calls' = [calls EXCEPT ![id].dominant_pollutant = pollutants[dominant_idx],
                                  ![id].at = "returned"]
    /\ ConcUnchanged

NextConc ==
    \E id \in CallIds :
        \/ ConvertCO(id)
        \/ SubIndexStep(id)
        \/ TakeMax(id)
        \/ FindDominant(id)

SpecConc == InitConc /\ [][NextConc]_vars

\* C16: however the steps of the concurrent calls interleave, every call
\* that has returned has returned exactly what a solitary call with the
\* same six arguments returns.
C16_CallsIndependent ==
    pc = "conc" =>
        \A id \in CallIds :
            calls[id].at = "returned" =>
                LET a    == calls[id].args
                    solo == calculate_ispu_manual(
                                FromTenths(a.pm10), FromTenths(a.pm2_5),
                                FromTenths(a.so2), FromTenths(a.no2),
                                FromTenths(a.o3), FromTenths(a.co))
                IN  /\ calls[id].ispu = solo.ispu
                    /\ ZeroIdx(calls[id].sub_indices) = solo.sub_indices
                    /\ calls[id].dominant_pollutant = solo.dominant_pollutant

C16_Witness ==
    /\ pc = "conc"
    /\ calls[1].at = "returned"
    /\ calls[2].at = "returned"
    /\ calls[1].args.co # calls[2].args.co
    /\ calls[1].ispu = 7444
    /\ calls[2].ispu = 500 * Cent

\* the CO breakpoints in ug/m3 (tenths), as the claim lists them
COBreakpoints ==
    ZeroIdx(<<0, 4000 * Scale, 8000 * Scale, 15000 * Scale, 30000 * Scale,
              45000 * Scale>>)

\* C17: the CO sub-index of a reading co (mg/m3) is the sub-index of the
\* concentration 1000*co against [0, 4000, 8000, 15000, 30000, 45000]; the
\* other five pollutants are looked up with their readings unscaled.
C17_CONormalised ==
    HasResult =>
        /\ sub_indices[5] = ScanBands(COBreakpoints, 0,
                                      FMul(FromTenths(inputs.co), FromInt(1000)))
        /\ \A k \in 1..5 :
              sub_indices[k - 1]
                  = ScanBands(thresholds[Keys[k]], 0, FromTenths(inputs[Keys[k]]))

C17_Witness ==
    /\ pc = "computed"
    /\ inputs.co = 161
    /\ sub_indices[5] = 15367
    /\ inputs.pm10 = 1501
    /\ sub_indices[0] = 10003

\* the guard "C_high - C_low == 0" of app.py:291 is false for every band of
\* the table t
NoEmptyBand(t) ==
    \A p \in KeySet : \A i \in 0..4 :
        ~FIsZero(FSub(FromTenths(t[p][i + 1]), FromTenths(t[p][i])))

\* every pollutant of the table has 6 strictly increasing breakpoints and
\* no band of zero width
TableIncreasing ==
    /\ DOMAIN thresholds = KeySet
    /\ \A p \in KeySet :
          /\ DOMAIN thresholds[p] = 0..5
          /\ \A i \in 0..4 : thresholds[p][i] < thresholds[p][i + 1]
    /\ NoEmptyBand(thresholds)

\* C18: in every state each of the six pollutants has exactly 6 strictly
\* increasing breakpoints, so no interpolation meets C_high = C_low, and
\* the table of every call in progress still holds the values it was built
\* with.
C18_TableInvariant ==
    /\ TableIncreasing
    /\ pc = "conc" =>
          \A id \in CallIds : calls[id].thresholds = thresholds

C18_Witness ==
    /\ pc = "conc"
    /\ \A id \in CallIds : calls[id].at = "returned"
    /\ calls[1].args.pm10 = 50 * Scale
    /\ calls[1].sub_indices[1] = 50 * Cent
    /\ calls[1].thresholds["pm10"][3] = 350 * Scale

\* the index is 0..250 or exactly 500
ReachableIndex(x) == (0 <= x /\ x <= 250 * Cent) \/ x = 500 * Cent

\* C19: for validated inputs every sub-index and the overall index lies in
\* [0, 250] or is exactly 500; Berbahaya is reached only at index 500 and
\* only when some concentration is strictly above its top breakpoint.
C19_ReachableValues ==
    pc = "mono_done" =>
        /\ \A k \in 0..5 : ReachableIndex(sub_indices[k])
        /\ ReachableIndex(ispu_pred)
        /\ ReachableIndex(ispu_lo)
        /\ classify_air_quality(ispu_pred)[1] = "Berbahaya" =>
              /\ ispu_pred = 500 * Cent
              /\ \E k \in 1..6 :
                    ~FLe(ToConc(Keys[k], inputs[Keys[k]]),
                         FromTenths(thresholds[Keys[k]][5]))
        /\ classify_based_on_ispu(ispu_pred).label = "Berbahaya" =>
              ispu_pred = 500 * Cent

C19_Witness ==
    /\ pc = "mono_done"
    /\ pollutant = "co"
    /\ inputs_lo.co = 45 * Scale
    /\ inputs.co = 45 * Scale + 1
    /\ ispu_lo = 250 * Cent
    /\ ispu_pred = 500 * Cent
    /\ classify_air_quality(ispu_pred)[1] = "Berbahaya"

\* C20: for every index value the category card (classify_air_quality),
\* the classification metric (classify_based_on_ispu) and the health
\* recommendation block select the same severity tier.
C20_ConsistentTiers ==
    pc = "cls_rec" =>
        /\ TierOfLabel(category[1]) = TierOfLabel(air_quality_class.label)
        /\ TierOfLabel(category[1]) = TierOfHeading(recommendation.heading)

C20_Witness ==
    /\ pc = "cls_rec"
    /\ ispu_pred = 200 * Cent
    /\ category[1] = "Tidak Sehat"
    /\ air_quality_class.label = "Tidak Sehat"
    /\ recommendation.heading = "TIDAK SEHAT"

====
